---- MODULE Spec2Model ----
(***************************************************************************)
(* A model of package httpc's request validation: Validate's dispatch on   *)
(* the Content-Type header, the three decode paths (ValidateForm,          *)
(* ValidateJSON, ValidateMultipart), the reflective walk validate /        *)
(* validateFields / validateField, and SetMaxUploadSize with the mutex mu. *)
(***************************************************************************)
EXTENDS Integers, Sequences, FiniteSets, TLC

VARIABLES
    form,           \* the caller's target: a tree of fields
    header,         \* req.Header.Get("Content-Type")
    pc,             \* position of the request inside Validate
    media,          \* media type returned by mime.ParseMediaType
    route,          \* decode path chosen by the switch
    decoded,        \* what decoding has done to the target
    bodyRead,       \* req.Body has been read from
    bodyClosed,     \* req.Body.Close() has been called
    stack,          \* call stack of validate/validateFields/validateField
    err,            \* value returned by the call that returned last
    log,            \* the Validate() invocations so far, in order
    ret,            \* value returned by Validate to its caller
    maxUploadSize,  \* package variable maxUploadSize
    mu,             \* holder of the package mutex mu
    setPc,          \* position of each SetMaxUploadSize caller
    setArg,         \* argument of each SetMaxUploadSize caller
    ceiling,        \* argument handed to ParseMultipartForm
    readLocked,     \* the request held mu when it read maxUploadSize
    readRaced,      \* a SetMaxUploadSize call was inside its critical section at that read
    build,          \* which ValidateMultipart is compiled in
    override,       \* <<n>> when the target has MaxUploadSize() returning n, else <<>>
    completed,      \* argument of the SetMaxUploadSize call that returned last
    readCompleted,  \* completed, as it was when the ceiling was determined
    parent,         \* for each Mux the Mux it is mounted on, 0 for the NewMux one
    errorHandler,   \* field errorHandler of each Mux
    routes,         \* whether a Handler is registered on each Mux
    srv             \* the request being served by a registered route

vars == <<form, header, pc, media, route, decoded, bodyRead, bodyClosed, stack, err,
          log, ret, maxUploadSize, mu, setPc, setArg, ceiling, readLocked,
          readRaced, build, override, completed, readCompleted, parent,
          errorHandler, routes, srv>>

reqVars == <<pc, media, route, decoded, bodyRead, bodyClosed, ret>>
walkVars == <<stack, err, log>>
cfgVars == <<maxUploadSize, mu, setPc, setArg, completed>>
readVars == <<ceiling, readLocked, readRaced, readCompleted>>
buildVars == <<build, override>>
muxVars == <<parent, errorHandler, routes, srv>>

(***************************************************************************)
(* Bounds.                                                                 *)
(***************************************************************************)
MaxSiblings == 1    \* fields declared after the first field of the target
MaxSize == 1        \* SetMaxUploadSize arguments are 1..MaxSize
NumSetters == 1     \* concurrent callers of SetMaxUploadSize

DefaultMaxUploadSize == 33554432

(***************************************************************************)
(* Targets.  A field value is a record:                                    *)
(*   anon      the struct field is embedded (StructField.Anonymous)        *)
(*   exported  Value.CanInterface() holds for the field value              *)
(*   kind      "struct", "ptr" (non-nil pointer to struct), "nilptr",      *)
(*             "other" (any non-struct, non-pointer kind)                  *)
(*   isForm    the value's dynamic type implements Form                    *)
(*   ok        its own Validate() returns nil (a nil pointer's never does) *)
(*   fields    the fields its struct type declares, in declaration order   *)
(* A node of a target is named by the sequence of field indices leading    *)
(* to it from the top; <<>> is the target itself.                          *)
(***************************************************************************)
Node(a, e, k, f, o, fs) ==
    [anon |-> a, exported |-> e, kind |-> k, isForm |-> f, ok |-> o, fields |-> fs]

\* isForm/ok of a value: not a Form, a Form that accepts, a Form that rejects
Contracts == {<<FALSE, TRUE>>, <<TRUE, TRUE>>, <<TRUE, FALSE>>}

\* values without fields of their own
LeafKinds ==
    { Node(FALSE, e, "other", c[1], c[2], <<>>) : e \in BOOLEAN, c \in Contracts }
    \cup { Node(FALSE, TRUE, "nilptr", TRUE, FALSE, <<>>) }

\* the first field: a struct, a pointer to a struct or a nil pointer,
\* embedded or named, with no field or one field of its own
FirstKinds ==
    { Node(a, e, k, c[1], c[2], fs) :
        a \in BOOLEAN, e \in BOOLEAN, k \in {"struct", "ptr"}, c \in Contracts,
        fs \in {<<>>} \cup { <<l>> : l \in LeafKinds } }
    \cup { Node(a, TRUE, "nilptr", TRUE, FALSE, fs) :
        a \in BOOLEAN, fs \in {<<>>} \cup { <<l>> : l \in LeafKinds } }

\* the fields declared after it
SiblingKinds ==
    { Node(FALSE, TRUE, "other", TRUE, TRUE, <<>>),
      Node(FALSE, TRUE, "other", TRUE, FALSE, <<>>) }

SeqsUpTo(S, n) == UNION { [1..k -> S] : k \in 0..n }

\* the target handed to Validate is a non-nil pointer to a struct
Forms ==
    { Node(FALSE, TRUE, "ptr", TRUE, o, <<a>> \o bs) :
        o \in BOOLEAN, a \in FirstKinds, bs \in SeqsUpTo(SiblingKinds, MaxSiblings) }

RECURSIVE At(_, _)
At(n, p) == IF p = <<>> THEN n ELSE At(n.fields[Head(p)], Tail(p))

RECURSIVE PathsOf(_)
PathsOf(n) ==
    {<<>>} \cup UNION { { <<i>> \o q : q \in PathsOf(n.fields[i]) } : i \in 1..Len(n.fields) }

IsPrefix(p, q) == Len(p) <= Len(q) /\ SubSeq(q, 1, Len(p)) = p
Parent(p) == SubSeq(p, 1, Len(p) - 1)

(***************************************************************************)
(* Errors.                                                                 *)
(***************************************************************************)
NoErr == [kind |-> "nil", node |-> <<>>]
MimeErr == [kind |-> "mime", node |-> <<>>]
DecodeErr == [kind |-> "decode", node |-> <<>>]
\* the error value node p's own Validate() returns when it rejects
ValidationErr(p) == [kind |-> "validation", node |-> p]

\* form.Validate() on the node at p
CallValidate(p) == IF At(form, p).ok THEN NoErr ELSE ValidationErr(p)

(***************************************************************************)
(* The Content-Type header.  A header value is a sequence of lexemes: the  *)
(* separators "/", ";", "=" and " ", and tokens (maximal runs of token     *)
(* characters).  ParseMediaType is mime.ParseMediaType on that form.       *)
(***************************************************************************)
Separators == {"/", ";", "=", " "}
IsToken(x) == x \notin Separators

\* strings.ToLower on a lexeme
ToLower(x) ==
    CASE x = "Application" -> "application"
      [] x = "JSON" -> "json"
      [] OTHER -> x

LowerAll(s) == [i \in 1..Len(s) |-> ToLower(s[i])]

RECURSIVE TrimLeft(_)
TrimLeft(s) == IF s # <<>> /\ Head(s) = " " THEN TrimLeft(Tail(s)) ELSE s

RECURSIVE TrimRight(_)
TrimRight(s) ==
    IF s # <<>> /\ s[Len(s)] = " " THEN TrimRight(SubSeq(s, 1, Len(s) - 1)) ELSE s

TrimSpace(s) == TrimLeft(TrimRight(s))

\* index of the first ";" of s, 0 when there is none
RECURSIVE IndexSemi(_, _)
IndexSemi(s, i) ==
    IF i > Len(s) THEN 0 ELSE IF s[i] = ";" THEN i ELSE IndexSemi(s, i + 1)

\* checkMediaTypeDisposition letting the empty string through
CheckMediaTypeLax(s) ==
    \/ s = <<>>
    \/ /\ IsToken(s[1])
       /\ Len(s) = 1 \/ (Len(s) = 3 /\ s[2] = "/" /\ IsToken(s[3]))

\* checkMediaTypeDisposition: token, or token "/" token, and nothing after
CheckMediaType(s) ==
    /\ s # <<>>
    /\ IsToken(s[1])
    /\ \/ Len(s) = 1
       \/ /\ Len(s) = 3
          /\ s[2] = "/"
          /\ IsToken(s[3])

\* consumeMediaParam: [key, rest]; key = "" when v does not start with a parameter
ConsumeMediaParam(v) ==
    LET r1 == TrimLeft(v)
        r2 == IF r1 # <<>> /\ Head(r1) = ";" THEN TrimLeft(Tail(r1)) ELSE <<>>
        r3 == IF r2 # <<>> /\ IsToken(Head(r2)) THEN TrimLeft(Tail(r2)) ELSE <<>>
        r4 == IF r3 # <<>> /\ Head(r3) = "=" THEN TrimLeft(Tail(r3)) ELSE <<>>
    IN  IF r4 # <<>> /\ IsToken(Head(r4))
        THEN [key |-> ToLower(Head(r2)), rest |-> Tail(r4)]
        ELSE [key |-> "", rest |-> v]

\* the parameter loop of ParseMediaType: TRUE when it ends without an error
RECURSIVE ParamsOK(_, _)
ParamsOK(v, seen) ==
    LET w == TrimLeft(v)
        r == ConsumeMediaParam(w)
    IN  IF w = <<>> THEN TRUE
        ELSE IF r.key = "" THEN TrimSpace(r.rest) = <<";">>
        ELSE IF r.key \in seen THEN FALSE
        ELSE ParamsOK(r.rest, seen \cup {r.key})

ParseMediaType(v) ==
    LET i == IndexSemi(v, 1)
        base == IF i = 0 THEN v ELSE SubSeq(v, 1, i - 1)
        rest == IF i = 0 THEN <<>> ELSE SubSeq(v, i, Len(v))
        mediatype == TrimSpace(LowerAll(base))
    IN  IF CheckMediaType(mediatype) /\ ParamsOK(rest, {})
        THEN [media |-> mediatype, ok |-> TRUE]
        ELSE [media |-> <<>>, ok |-> FALSE]

\* req.Header.Get("Content-Type") of the requests considered
Headers ==
    { <<>>,
      <<" ">>,
      <<"application", "/", "json">>,
      <<"Application", "/", "JSON">>,
      <<" ", "application", "/", "json", " ">>,
      <<"application", "/", "json", ";", " ", "charset", "=", "utf-8">>,
      <<"application", "/", "json", ";">>,
      <<"application", "/", "json", ";", " ", "charset">>,
      <<"application", "/", "json", ";", "a", "=", "b", ";", "a", "=", "c">>,
      <<"application", "/", "json", "/", "x">>,
      <<"application", "/">>,
      <<"/", "json">>,
      <<"application", " ", "/", "json">>,
      <<"multipart", "/", "form-data", ";", " ", "boundary", "=", "x">>,
      <<"multipart", "/", "form-data">>,
      <<"multipart", "/", "mixed", ";", " ", "boundary", "=", "x">>,
      <<"application", "/", "x-www-form-urlencoded">>,
      <<"application", "/", "x-www-form-urlencoded", ";", " ", "charset", "=", "utf-8">>,
      <<"text">> }

\* the switch matching on the type before the slash only
DispatchByType(m) ==
    CASE m = <<"application", "/", "json">> -> "json"
      [] m[1] = "multipart" -> "multipart"
      [] OTHER -> "form"

\* the switch of Validate
Dispatch(m) ==
    CASE m = <<"application", "/", "json">> -> "json"
      [] m = <<"multipart", "/", "form-data">> -> "multipart"
      [] OTHER -> "form"

\* first statement of the function the switch returns into
EntryPc(r) ==
    CASE r = "json" -> "json_decode"
      [] r = "multipart" -> "mp_read"
      [] OTHER -> "form_parse"

NotReturned == [kind |-> "pending", node |-> <<>>]
ParseErr == [kind |-> "parse", node |-> <<>>]

Frame(fn, p, i, st) == [fn |-> fn, node |-> p, i |-> i, st |-> st]

\* Validate without `if err != nil { return err }`
ValidateUnchecked ==
    /\ pc = "idle"
    /\ LET r == ParseMediaType(header) IN
        /\ media' = r.media
        /\ route' = Dispatch(r.media)
        /\ pc' = EntryPc(Dispatch(r.media))
        /\ ret' = ret
    /\ UNCHANGED <<buildVars, muxVars, form, header, decoded, bodyRead, bodyClosed>>
    /\ UNCHANGED <<walkVars, cfgVars, readVars>>

(***************************************************************************)
(* Validate: read the header, parse it, return the error or enter the path *)
(***************************************************************************)
Validate ==
    /\ pc = "idle"
    /\ LET r == ParseMediaType(header) IN
        IF ~r.ok
        THEN /\ pc' = "done"
             /\ ret' = MimeErr
             /\ UNCHANGED <<media, route>>
        ELSE /\ media' = r.media
             /\ route' = Dispatch(r.media)
             /\ pc' = EntryPc(Dispatch(r.media))
             /\ ret' = ret
    /\ UNCHANGED <<buildVars, muxVars, form, header, decoded, bodyRead, bodyClosed>>
    /\ UNCHANGED <<walkVars, cfgVars, readVars>>

\* the target's own form.Validate() alone, its fields not gone through
EnterFormValidate == <<Frame("validate", <<>>, 0, "fields")>>

\* the `return form.Validate()` each path of the UploadForm version ends with
EnterDirect == <<Frame("validate", <<>>, 0, "fields")>>

\* the call validate(form) each path ends with
EnterValidate ==
    IF build = "override" THEN EnterDirect
    ELSE <<Frame("validate", <<>>, 0, "entry")>>

\* ValidateForm: req.ParseForm()
FormParse(good) ==
    /\ pc = "form_parse"
    /\ bodyRead' = TRUE
    /\ IF good
       THEN pc' = "form_decode" /\ ret' = ret
       ELSE pc' = "done" /\ ret' = ParseErr
    /\ UNCHANGED <<buildVars, muxVars, form, header, media, route, decoded, bodyClosed>>
    /\ UNCHANGED <<walkVars, cfgVars, readVars>>

\* ValidateForm: decoder.Decode(form, req.PostForm), then validate(form)
FormDecode(good) ==
    /\ pc = "form_decode"
    /\ IF good
       THEN /\ decoded' = "full"
            /\ pc' = "validating"
            /\ stack' = EnterValidate
            /\ ret' = ret
       ELSE /\ decoded' = "partial"
            /\ pc' = "done"
            /\ ret' = DecodeErr
            /\ stack' = stack
    /\ UNCHANGED <<buildVars, muxVars, form, header, media, route, bodyRead, bodyClosed, err, log>>
    /\ UNCHANGED <<cfgVars, readVars>>

\* ValidateJSON: json.NewDecoder(req.Body).Decode(form), then validate(form);
\* the deferred req.Body.Close() runs on the failing return
JSONDecode(good) ==
    /\ pc = "json_decode"
    /\ bodyRead' = TRUE
    /\ IF good
       THEN /\ decoded' = "full"
            /\ pc' = "validating"
            /\ stack' = EnterValidate
            /\ UNCHANGED <<ret, bodyClosed>>
       ELSE /\ decoded' = "partial"
            /\ pc' = "done"
            /\ ret' = DecodeErr
            /\ bodyClosed' = TRUE
            /\ stack' = stack
    /\ UNCHANGED <<buildVars, muxVars, form, header, media, route, err, log>>
    /\ UNCHANGED <<cfgVars, readVars>>

\* the holders of mu
Setters == 1..NumSetters
Unlocked == <<"nobody", 0>>
HeldBy(s) == <<"setter", s>>
HeldByRequest == <<"request", 0>>

\* a setter that has locked mu and not yet stored its argument
Writers == { s \in DOMAIN setPc : setPc[s] = "locked" }

\* ValidateMultipart passing the constant whatever the variable holds
MultipartReadDefault ==
    /\ pc = "mp_read"
    /\ build = "setter"
    /\ ceiling' = DefaultMaxUploadSize
    /\ readLocked' = (mu = HeldByRequest)
    /\ readRaced' = (mu \notin {Unlocked, HeldByRequest})
    /\ readCompleted' = completed
    /\ pc' = "mp_parse"
    /\ UNCHANGED <<buildVars, muxVars, form, header, media, route, decoded, bodyRead, bodyClosed, ret>>
    /\ UNCHANGED <<walkVars, cfgVars>>

\* ValidateMultipart: the argument maxUploadSize is evaluated, without mu.
\* A read that overlaps a store yields the old or the new value.
MultipartRead ==
    /\ pc = "mp_read"
    /\ build = "setter"
    /\ ceiling' \in {maxUploadSize} \cup { setArg[s] : s \in Writers }
    /\ readLocked' = (mu = HeldByRequest)
    /\ readRaced' = (mu \notin {Unlocked, HeldByRequest})
    /\ readCompleted' = completed
    /\ pc' = "mp_parse"
    /\ UNCHANGED <<buildVars, muxVars, form, header, media, route, decoded, bodyRead, bodyClosed, ret>>
    /\ UNCHANGED <<walkVars, cfgVars>>

\* the ValidateMultipart with UploadForm: the ceiling is a local, the
\* constant unless the target has MaxUploadSize()
MultipartReadOverride ==
    /\ pc = "mp_read"
    /\ build = "override"
    /\ ceiling' = IF override # <<>> THEN override[1] ELSE DefaultMaxUploadSize
    /\ readCompleted' = completed
    /\ pc' = "mp_parse"
    /\ UNCHANGED <<readLocked, readRaced>>
    /\ UNCHANGED <<buildVars, muxVars>>
    /\ UNCHANGED <<form, header, media, route, decoded, bodyRead, bodyClosed, ret>>
    /\ UNCHANGED <<walkVars, cfgVars>>

\* ValidateMultipart: req.ParseMultipartForm(maxUploadSize)
MultipartParse(good) ==
    /\ pc = "mp_parse"
    /\ bodyRead' = TRUE
    /\ IF good
       THEN pc' = "mp_decode" /\ ret' = ret
       ELSE pc' = "done" /\ ret' = ParseErr
    /\ UNCHANGED <<buildVars, muxVars, form, header, media, route, decoded, bodyClosed>>
    /\ UNCHANGED <<walkVars, cfgVars, readVars>>

\* ValidateMultipart going on to validate(form) whatever Decode returned
MultipartDecodeUnchecked(good) ==
    /\ pc = "mp_decode"
    /\ decoded' = IF good THEN "full" ELSE "partial"
    /\ pc' = "validating"
    /\ stack' = EnterValidate
    /\ ret' = ret
    /\ UNCHANGED <<buildVars, muxVars, form, header, media, route, bodyRead, bodyClosed, err, log>>
    /\ UNCHANGED <<cfgVars, readVars>>

\* ValidateMultipart: decoder.Decode(form, req.MultipartForm.Value), then validate(form)
MultipartDecode(good) ==
    /\ pc = "mp_decode"
    /\ IF good
       THEN /\ decoded' = "full"
            /\ pc' = "validating"
            /\ stack' = EnterValidate
            /\ ret' = ret
       ELSE /\ decoded' = "partial"
            /\ pc' = "done"
            /\ ret' = DecodeErr
            /\ stack' = stack
    /\ UNCHANGED <<buildVars, muxVars, form, header, media, route, bodyRead, bodyClosed, err, log>>
    /\ UNCHANGED <<cfgVars, readVars>>

(***************************************************************************)
(* The walk.  Each frame of the stack is one activation of validate,       *)
(* validateFields or validateField on the node it names; st is the place   *)
(* the activation has reached and i the loop index of validateFields.      *)
(***************************************************************************)
Walking == pc = "validating" /\ stack # <<>>
Top == stack[Len(stack)]
Pop == SubSeq(stack, 1, Len(stack) - 1)
\* the running activation moves to st and calls g
Call(st, g) == Append([stack EXCEPT ![Len(stack)].st = st], g)

\* the error check left out: the walk goes on after a failure
FailedNever(e) == FALSE

\* `if err != nil { return err }`
Failed(e) == e # NoErr

\* validateFields: after `v = v.Elem()` on a pointer, v.Kind() == reflect.Struct
IsStructValue(n) == n.kind \in {"struct", "ptr"}

\* validateFields going into every field, embedded or not
DescendsAlways(c) == TRUE

\* validateFields: `if fieldType.Anonymous`
Descends(c) == c.anon

\* validateField without the nil check
FieldSkippedNoNil(c) ==
    \/ ~c.exported
    \/ ~c.isForm

\* validateField without the CanInterface check
FieldSkippedNoInterface(c) ==
    \/ c.kind = "nilptr"
    \/ ~c.isForm

\* validateField returning nil for every pointer, nil or not
FieldSkippedPointers(c) ==
    \/ c.kind \in {"nilptr", "ptr"}
    \/ ~c.exported
    \/ ~c.isForm

\* validateField: the three early `return nil`
FieldSkipped(c) ==
    \/ c.kind = "nilptr"
    \/ ~c.exported
    \/ ~c.isForm

\* the loop running from the last field to the first
ChildReversed(f) == Append(f.node, Len(At(form, f.node).fields) + 1 - f.i)

\* the field validateFields is at: v.Field(i)
Child(f) == Append(f.node, f.i)

\* validate: err := validateFields(v, t)
ValidateEntry ==
    /\ Walking
    /\ Top.fn = "validate" /\ Top.st = "entry"
    /\ stack' = Call("fields", Frame("validateFields", Top.node, 1, "entry"))
    /\ UNCHANGED <<err, log>>
    /\ UNCHANGED <<buildVars, muxVars, form, header, reqVars, cfgVars, readVars>>

\* validate: validateFields failed, return err
ValidateFail ==
    /\ Walking
    /\ Top.fn = "validate" /\ Top.st = "fields"
    /\ Failed(err)
    /\ stack' = Pop
    /\ UNCHANGED <<err, log>>
    /\ UNCHANGED <<buildVars, muxVars, form, header, reqVars, cfgVars, readVars>>

\* validate: return form.Validate()
ValidateSelf ==
    /\ Walking
    /\ Top.fn = "validate" /\ Top.st = "fields"
    /\ ~Failed(err)
    /\ log' = Append(log, Top.node)
    /\ err' = CallValidate(Top.node)
    /\ stack' = Pop
    /\ UNCHANGED <<buildVars, muxVars, form, header, reqVars, cfgVars, readVars>>

\* validateFields: the value is not a struct (or a nil pointer), return nil
FieldsSkip ==
    /\ Walking
    /\ Top.fn = "validateFields" /\ Top.st = "entry"
    /\ ~IsStructValue(At(form, Top.node))
    /\ stack' = Pop
    /\ err' = NoErr
    /\ UNCHANGED log
    /\ UNCHANGED <<buildVars, muxVars, form, header, reqVars, cfgVars, readVars>>

\* validateFields: the value is a struct, start the loop
FieldsEnter ==
    /\ Walking
    /\ Top.fn = "validateFields" /\ Top.st = "entry"
    /\ IsStructValue(At(form, Top.node))
    /\ stack' = [stack EXCEPT ![Len(stack)].st = "loop"]
    /\ UNCHANGED <<err, log>>
    /\ UNCHANGED <<buildVars, muxVars, form, header, reqVars, cfgVars, readVars>>

\* validateFields: i == t.NumField(), return nil
FieldsDone ==
    /\ Walking
    /\ Top.fn = "validateFields" /\ Top.st = "loop"
    /\ Top.i > Len(At(form, Top.node).fields)
    /\ stack' = Pop
    /\ err' = NoErr
    /\ UNCHANGED log
    /\ UNCHANGED <<buildVars, muxVars, form, header, reqVars, cfgVars, readVars>>

\* validateFields: an embedded field, validateFields(fieldVal, fieldType.Type)
FieldsEmbedded ==
    /\ Walking
    /\ Top.fn = "validateFields" /\ Top.st = "loop"
    /\ Top.i <= Len(At(form, Top.node).fields)
    /\ Descends(At(form, Child(Top)))
    /\ stack' = Call("afterEmbedded", Frame("validateFields", Child(Top), 1, "entry"))
    /\ UNCHANGED <<err, log>>
    /\ UNCHANGED <<buildVars, muxVars, form, header, reqVars, cfgVars, readVars>>

\* validateFields: the embedded field's fields failed, return err
FieldsEmbeddedFail ==
    /\ Walking
    /\ Top.fn = "validateFields" /\ Top.st = "afterEmbedded"
    /\ Failed(err)
    /\ stack' = Pop
    /\ UNCHANGED <<err, log>>
    /\ UNCHANGED <<buildVars, muxVars, form, header, reqVars, cfgVars, readVars>>

\* validateFields: err := validateField(fieldVal)
FieldsField ==
    /\ Walking
    /\ Top.fn = "validateFields"
    /\ Top.i <= Len(At(form, Top.node).fields)
    /\ IF Descends(At(form, Child(Top)))
       THEN Top.st = "afterEmbedded" /\ ~Failed(err)
       ELSE Top.st = "loop"
    /\ stack' = Call("afterField", Frame("validateField", Child(Top), 0, "entry"))
    /\ UNCHANGED <<err, log>>
    /\ UNCHANGED <<buildVars, muxVars, form, header, reqVars, cfgVars, readVars>>

\* validateFields: validateField failed, return err
FieldsFieldFail ==
    /\ Walking
    /\ Top.fn = "validateFields" /\ Top.st = "afterField"
    /\ Failed(err)
    /\ stack' = Pop
    /\ UNCHANGED <<err, log>>
    /\ UNCHANGED <<buildVars, muxVars, form, header, reqVars, cfgVars, readVars>>

\* validateFields: i++
FieldsNext ==
    /\ Walking
    /\ Top.fn = "validateFields" /\ Top.st = "afterField"
    /\ ~Failed(err)
    /\ stack' = [stack EXCEPT ![Len(stack)] = Frame("validateFields", Top.node, Top.i + 1, "loop")]
    /\ UNCHANGED <<err, log>>
    /\ UNCHANGED <<buildVars, muxVars, form, header, reqVars, cfgVars, readVars>>

\* validateField: nil pointer, not interfaceable or not a Form, return nil
FieldSkip ==
    /\ Walking
    /\ Top.fn = "validateField"
    /\ FieldSkipped(At(form, Top.node))
    /\ stack' = Pop
    /\ err' = NoErr
    /\ UNCHANGED log
    /\ UNCHANGED <<buildVars, muxVars, form, header, reqVars, cfgVars, readVars>>

\* validateField: return validate(form)
FieldValidate ==
    /\ Walking
    /\ Top.fn = "validateField"
    /\ ~FieldSkipped(At(form, Top.node))
    /\ stack' = [stack EXCEPT ![Len(stack)] = Frame("validate", Top.node, 0, "entry")]
    /\ UNCHANGED <<err, log>>
    /\ UNCHANGED <<buildVars, muxVars, form, header, reqVars, cfgVars, readVars>>

\* the return with ValidateJSON's `defer req.Body.Close()` left out
ReturnLeavingBody ==
    /\ pc = "validating"
    /\ stack = <<>>
    /\ ret' = err
    /\ pc' = "done"
    /\ UNCHANGED <<buildVars, muxVars, form, header, media, route, decoded, bodyRead, bodyClosed>>
    /\ UNCHANGED <<walkVars, cfgVars, readVars>>

\* the `return validate(form)` of ValidateForm, ValidateJSON and
\* ValidateMultipart; ValidateJSON's deferred req.Body.Close() runs here
Return ==
    /\ pc = "validating"
    /\ stack = <<>>
    /\ ret' = err
    /\ pc' = "done"
    /\ bodyClosed' = IF route = "json" THEN TRUE ELSE bodyClosed
    /\ UNCHANGED <<buildVars, muxVars, form, header, media, route, decoded, bodyRead>>
    /\ UNCHANGED <<walkVars, cfgVars, readVars>>

(***************************************************************************)
(* SetMaxUploadSize, one step per statement.                               *)
(***************************************************************************)
Sizes == 1..MaxSize

\* mu.Lock()
SetLock(s, size) ==
    /\ build = "setter"
    /\ setPc[s] = "idle"
    /\ mu = Unlocked
    /\ mu' = HeldBy(s)
    /\ setPc' = [setPc EXCEPT ![s] = "locked"]
    /\ setArg' = [setArg EXCEPT ![s] = size]
    /\ UNCHANGED <<maxUploadSize, completed>>
    /\ UNCHANGED <<buildVars, muxVars, form, header, reqVars, walkVars, readVars>>

\* maxUploadSize = size
SetStore(s) ==
    /\ setPc[s] = "locked"
    /\ maxUploadSize' = setArg[s]
    /\ setPc' = [setPc EXCEPT ![s] = "stored"]
    /\ UNCHANGED <<mu, setArg, completed>>
    /\ UNCHANGED <<buildVars, muxVars, form, header, reqVars, walkVars, readVars>>

\* mu.Unlock()
SetUnlock(s) ==
    /\ setPc[s] = "stored"
    /\ mu' = Unlocked
    /\ setPc' = [setPc EXCEPT ![s] = "idle"]
    /\ completed' = setArg[s]
    /\ UNCHANGED <<maxUploadSize, setArg>>
    /\ UNCHANGED <<buildVars, muxVars, form, header, reqVars, walkVars, readVars>>

(***************************************************************************)
(* Mux.  A Mux holds an errorHandler; NewMux makes the first one, the      *)
(* others come from NewSubMux.  A route registered with Any, Get, ... runs *)
(* its Handler and, on an error, hands the request to m.errorHandler.      *)
(***************************************************************************)
MaxMuxes == 3       \* the NewMux one and the NewSubMux ones

Nil == "nil"
RouteErrors == {"e1", "e2"}
\* arguments of SetErrorHandler
Handlers == {"custom"}
Muxes == 1..Len(errorHandler)

\* no request in hand
Idle == [pc |-> "idle", mux |-> 0, returned |-> Nil, ctx |-> {}, invoked |-> 0, seen |-> Nil]

\* Error(req): the value under keyError in the request's context, if any
Error(ctx) ==
    IF \E kv \in ctx : kv[1] = "keyError"
    THEN (CHOOSE kv \in ctx : kv[1] = "keyError")[2]
    ELSE Nil

\* h := &Mux{Mux: goji.SubMux()}; m.Handle(p, h)
NewSubMux(m) ==
    /\ srv.pc = "idle"
    /\ Len(errorHandler) < MaxMuxes
    /\ parent' = Append(parent, m)
    /\ errorHandler' = Append(errorHandler, Nil)
    /\ routes' = Append(routes, FALSE)
    /\ UNCHANGED srv
    /\ UNCHANGED <<buildVars, form, header, reqVars, walkVars, cfgVars, readVars>>

\* m.errorHandler = h
SetErrorHandler(m, h) ==
    /\ srv.pc = "idle"
    /\ errorHandler' = [errorHandler EXCEPT ![m] = h]
    /\ UNCHANGED <<parent, routes, srv>>
    /\ UNCHANGED <<buildVars, form, header, reqVars, walkVars, cfgVars, readVars>>

\* m.Any, m.Get, ...: m.handle(p, h) registers the closure fn
handle(m) ==
    /\ srv.pc = "idle"
    /\ ~routes[m]
    /\ routes' = [routes EXCEPT ![m] = TRUE]
    /\ UNCHANGED <<parent, errorHandler, srv>>
    /\ UNCHANGED <<buildVars, form, header, reqVars, walkVars, cfgVars, readVars>>

\* fn: err := h(w, req)
RouteHandler(m, e) ==
    /\ srv.pc = "idle"
    /\ routes[m]
    /\ srv' = [Idle EXCEPT !.pc = "returned", !.mux = m, !.returned = e]
    /\ UNCHANGED <<parent, errorHandler, routes>>
    /\ UNCHANGED <<buildVars, form, header, reqVars, walkVars, cfgVars, readVars>>

\* fn: err == nil, nothing more is done
RouteNil ==
    /\ srv.pc = "returned"
    /\ srv.returned = Nil
    /\ srv' = [srv EXCEPT !.pc = "done"]
    /\ UNCHANGED <<parent, errorHandler, routes>>
    /\ UNCHANGED <<buildVars, form, header, reqVars, walkVars, cfgVars, readVars>>

\* fn: req = req.WithContext(context.WithValue(ctx, keyError, err))
RouteWithValue ==
    /\ srv.pc = "returned"
    /\ srv.returned # Nil
    /\ srv' = [srv EXCEPT !.pc = "call", !.ctx = {<<"keyError", srv.returned>>}]
    /\ UNCHANGED <<parent, errorHandler, routes>>
    /\ UNCHANGED <<buildVars, form, header, reqVars, walkVars, cfgVars, readVars>>

\* fn: m.errorHandler.ServeHTTP(w, req) with a handler in the field; the
\* handler calls Error(req)
RouteErrorHandler ==
    /\ srv.pc = "call"
    /\ errorHandler[srv.mux] # Nil
    /\ srv' = [srv EXCEPT !.pc = "done", !.invoked = srv.invoked + 1,
                          !.seen = Error(srv.ctx)]
    /\ UNCHANGED <<parent, errorHandler, routes>>
    /\ UNCHANGED <<buildVars, form, header, reqVars, walkVars, cfgVars, readVars>>

\* fn: m.errorHandler.ServeHTTP(w, req) on the nil interface value panics
RoutePanic ==
    /\ srv.pc = "call"
    /\ errorHandler[srv.mux] = Nil
    /\ srv' = [srv EXCEPT !.pc = "panic"]
    /\ UNCHANGED <<parent, errorHandler, routes>>
    /\ UNCHANGED <<buildVars, form, header, reqVars, walkVars, cfgVars, readVars>>

\* the server is ready for the next request
RouteDone ==
    /\ srv.pc \in {"done", "panic"}
    /\ srv' = Idle
    /\ UNCHANGED <<parent, errorHandler, routes>>
    /\ UNCHANGED <<buildVars, form, header, reqVars, walkVars, cfgVars, readVars>>

(***************************************************************************)
(* Specifications.  Spec: one request on any target, maxUploadSize left    *)
(* alone.  SpecUpload: one request with SetMaxUploadSize callers running   *)
(* beside it.                                                              *)
(***************************************************************************)
InitRequest ==
    /\ pc = "idle"
    /\ media = <<>>
    /\ route = "none"
    /\ decoded = "untouched"
    /\ bodyRead = FALSE
    /\ bodyClosed = FALSE
    /\ stack = <<>>
    /\ err = NoErr
    /\ log = <<>>
    /\ ret = NotReturned
    /\ maxUploadSize = DefaultMaxUploadSize
    /\ mu = Unlocked
    /\ setPc = [s \in Setters |-> "idle"]
    /\ setArg = [s \in Setters |-> DefaultMaxUploadSize]
    /\ ceiling = 0
    /\ readLocked = FALSE
    /\ readRaced = FALSE
    /\ completed = DefaultMaxUploadSize
    /\ readCompleted = DefaultMaxUploadSize
    /\ parent = <<0>>
    /\ errorHandler = <<"defaultErrorHandler">>
    /\ routes = <<FALSE>>
    /\ srv = Idle

\* one header for each outcome of the switch and one that does not parse
RouteHeaders ==
    { <<"application", "/", "json">>,
      <<"multipart", "/", "form-data", ";", " ", "boundary", "=", "x">>,
      <<"application", "/", "x-www-form-urlencoded">>,
      <<"application", "/">> }

\* the version with SetMaxUploadSize, on a target without MaxUploadSize()
InitBuild ==
    /\ build = "setter"
    /\ override = <<>>

Init ==
    /\ form \in Forms
    /\ header \in RouteHeaders
    /\ InitBuild
    /\ InitRequest

Next ==
    \/ Validate
    \/ \E good \in BOOLEAN : FormParse(good)
    \/ \E good \in BOOLEAN : FormDecode(good)
    \/ \E good \in BOOLEAN : JSONDecode(good)
    \/ MultipartRead
    \/ \E good \in BOOLEAN : MultipartParse(good)
    \/ \E good \in BOOLEAN : MultipartDecode(good)
    \/ ValidateEntry
    \/ ValidateFail
    \/ ValidateSelf
    \/ FieldsSkip
    \/ FieldsEnter
    \/ FieldsDone
    \/ FieldsEmbedded
    \/ FieldsEmbeddedFail
    \/ FieldsField
    \/ FieldsFieldFail
    \/ FieldsNext
    \/ FieldSkip
    \/ FieldValidate
    \/ Return

Spec == Init /\ [][Next]_vars

\* targets shaped like the test's testForm: an embedded component holding
\* an optional Form reference, then a Form field
SmallForms ==
    { Node(FALSE, TRUE, "ptr", TRUE, TRUE,
           << Node(TRUE, TRUE, "ptr", f, TRUE, << Node(FALSE, TRUE, c[1], TRUE, c[2], <<>>) >>),
              Node(FALSE, TRUE, "other", TRUE, o, <<>>) >>) :
        f \in BOOLEAN, o \in BOOLEAN,
        c \in {<<"other", TRUE>>, <<"other", FALSE>>, <<"nilptr", FALSE>>} }

InitDispatch ==
    /\ form \in SmallForms
    /\ header \in Headers
    /\ InitBuild
    /\ InitRequest

SpecDispatch == InitDispatch /\ [][Next]_vars

\* what a target's MaxUploadSize() returns, <<>> for a target without one
Overrides == {<<>>} \cup { <<n>> : n \in Sizes }

InitUpload ==
    /\ form \in SmallForms
    /\ header \in RouteHeaders
    /\ build \in {"setter", "override"}
    /\ override \in Overrides
    /\ InitRequest

NextUpload ==
    \/ Next
    \/ MultipartReadOverride
    \/ \E s \in Setters, size \in Sizes : SetLock(s, size)
    \/ \E s \in Setters : SetStore(s)
    \/ \E s \in Setters : SetUnlock(s)

SpecUpload == InitUpload /\ [][NextUpload]_vars

\* routes, sub-muxes and error handlers are set up between requests
InitMux ==
    /\ form = Node(FALSE, TRUE, "ptr", TRUE, TRUE, <<>>)
    /\ header = <<>>
    /\ InitBuild
    /\ InitRequest

NextMux ==
    \/ \E m \in Muxes : NewSubMux(m)
    \/ \E m \in Muxes, h \in Handlers : SetErrorHandler(m, h)
    \/ \E m \in Muxes : handle(m)
    \/ \E m \in Muxes, e \in {Nil} \cup RouteErrors : RouteHandler(m, e)
    \/ RouteNil
    \/ RouteWithValue
    \/ RouteErrorHandler
    \/ RoutePanic
    \/ RouteDone

SpecMux == InitMux /\ [][NextMux]_vars

(***************************************************************************)
(* Properties.                                                             *)
(***************************************************************************)
Accepts(p) == At(form, p).ok
NonNil(p) == At(form, p).kind # "nilptr"
StrictAncestor(a, p) == IsPrefix(a, p) /\ a # p
\* no pointer above p is nil, so the value at p exists
Present(p) == \A k \in 0..(Len(p) - 1) : NonNil(SubSeq(p, 1, k))
\* the value at p exists, is not a nil pointer and implements Form
Validatable(p) == Present(p) /\ NonNil(p) /\ At(form, p).isForm
\* the walk has returned into the decode path, which has returned its result
Validated == pc = "done" /\ decoded = "full"

\* p comes before q in traversal order: fields in declaration order, a
\* node's fields before the node
RECURSIVE Before(_, _)
Before(p, q) ==
    IF p = <<>> THEN FALSE
    ELSE IF q = <<>> THEN TRUE
    ELSE IF Head(p) = Head(q) THEN Before(Tail(p), Tail(q))
    ELSE Head(p) < Head(q)

\* the fields of the value at p are gone through: p is the target, or a
\* struct (behind a non-nil pointer or not) that is embedded in, or a
\* checked field of, a value whose fields are gone through
RECURSIVE Checked(_)
RECURSIVE Walked(_)
Walked(p) ==
    /\ At(form, p).kind \in {"struct", "ptr"}
    /\ \/ p = <<>>
       \/ /\ Walked(Parent(p))
          /\ At(form, p).anon \/ Checked(p)

\* the value at p is one the walk is to call Validate() on: the target, or
\* a non-nil, interfaceable Form field of a value whose fields are gone through
Checked(p) ==
    \/ p = <<>>
    \/ /\ Walked(Parent(p))
       /\ NonNil(p)
       /\ At(form, p).exported
       /\ At(form, p).isForm

Rejecting == { p \in PathsOf(form) : Checked(p) /\ ~Accepts(p) }
FirstRejecting == CHOOSE r \in Rejecting : \A q \in Rejecting : q = r \/ Before(r, q)

\* C1: when the Validate() of a nested node rejects, the Validate() of no
\* container above it, up to the target, is invoked anywhere in the call.
C1_FailFast ==
    \A i \in DOMAIN log :
        ~Accepts(log[i]) => \A j \in DOMAIN log : ~StrictAncestor(log[j], log[i])

\* a field of the first field rejected and the call returned, although
\* the first field and the target are themselves Forms the walk checks
C1_Witness ==
    /\ Validated
    /\ log # <<>>
    /\ log[Len(log)] = <<1, 1>>
    /\ ~Accepts(<<1, 1>>)
    /\ Checked(<<1>>)
    /\ ret = ValidationErr(<<1, 1>>)

\* C2: Validate() is invoked in traversal order (declaration order, nested
\* nodes before their container, a node possibly more than once), nothing
\* is invoked after the first rejection, and the error returned is that of
\* the first node in traversal order whose Validate() rejects.
C2_FirstErrorWins ==
    /\ \A i \in 1..(Len(log) - 1) : Accepts(log[i])
    /\ \A i \in DOMAIN log : \A j \in DOMAIN log :
          i < j => \/ log[i] = log[j]
                   \/ Before(log[i], log[j])
                   \/ \E k \in 1..(i - 1) : log[k] = log[j]
    /\ Validated =>
          IF Rejecting = {}
          THEN ret = NoErr
          ELSE ret = ValidationErr(FirstRejecting) /\ log[Len(log)] = FirstRejecting

\* two nodes reject, one under the first field and one declared after it,
\* and the call has returned
C2_Witness ==
    /\ Validated
    /\ <<1, 1>> \in Rejecting
    /\ <<2>> \in Rejecting
    /\ ret = ValidationErr(<<1, 1>>)

\* C3 as stated: when Validate() of a container is invoked every Validatable
\* value nested in it, at any depth, has had Validate() invoked and has
\* accepted; the call succeeds only if no nested Validatable value rejects.
C3_AllNestedValid ==
    /\ \A i \in DOMAIN log : \A q \in PathsOf(form) :
          StrictAncestor(log[i], q) /\ Validatable(q)
              => \E k \in 1..(i - 1) : log[k] = q /\ Accepts(q)
    /\ Validated /\ ret = NoErr =>
          \A q \in PathsOf(form) : q # <<>> /\ Validatable(q) => Accepts(q)

\* C3 amended: the same of every nested Validatable value the walk checks,
\* that is, one reached through embedded components and through non-nil,
\* interfaceable fields that implement Form.
C3_CheckedNestedValid ==
    /\ \A i \in DOMAIN log : \A q \in PathsOf(form) :
          StrictAncestor(log[i], q) /\ Validatable(q) /\ Checked(q)
              => \E k \in 1..(i - 1) : log[k] = q /\ Accepts(q)
    /\ Validated /\ ret = NoErr =>
          \A q \in PathsOf(form) : q # <<>> /\ Validatable(q) /\ Checked(q) => Accepts(q)

\* the target's Validate() was invoked after that of its first field, a
\* non-nil pointer, and of that field's own field
C3_Witness ==
    /\ Validated
    /\ ret = NoErr
    /\ At(form, <<1>>).kind = "ptr"
    /\ \E i \in DOMAIN log : \E j \in DOMAIN log :
          i < j /\ log[i] = <<1, 1>> /\ log[j] = <<1>> /\ log[Len(log)] = <<>>

\* C4: Validate() is never invoked on a nil pointer field or below one, no
\* error returned is theirs, and the call succeeds when every Validatable
\* value that is present accepts.
C4_NilSkipped ==
    /\ \A i \in DOMAIN log : Present(log[i]) /\ NonNil(log[i])
    /\ ret.kind = "validation" => Present(ret.node) /\ NonNil(ret.node)
    /\ Validated /\ (\A q \in PathsOf(form) : Validatable(q) => Accepts(q))
          => ret = NoErr

\* the first field is a nil embedded pointer whose type has a field, the
\* other values accept and the call has returned nil
C4_Witness ==
    /\ Validated
    /\ ret = NoErr
    /\ At(form, <<1>>).kind = "nilptr"
    /\ At(form, <<1>>).anon
    /\ At(form, <<1>>).fields # <<>>
    /\ ~Accepts(<<1, 1>>)

\* C5 as stated: a request with an empty or absent Content-Type is sent to
\* the URL-encoded form path and is not rejected.
C5_EmptyTypeToForm ==
    header = <<>> /\ pc # "idle" => route = "form" /\ ret # MimeErr

\* C5 amended: a request with an empty or absent Content-Type is rejected
\* with the error of the media type parse and enters no decode path.
C5_EmptyTypeRejected ==
    header = <<>> /\ pc # "idle" =>
        /\ pc = "done"
        /\ ret = MimeErr
        /\ route = "none"
        /\ ~bodyRead

\* the request without a Content-Type has been answered
C5_Witness ==
    /\ header = <<>>
    /\ pc = "done"
    /\ ret = MimeErr

\* C6: when the header parses, the media type has its parameters stripped
\* and the path taken is the JSON path exactly for application/json, the
\* multipart path exactly for multipart/form-data, the form path otherwise.
C6_ExactDispatch ==
    pc # "idle" /\ ParseMediaType(header).ok =>
        /\ media # <<>>
        /\ \A i \in DOMAIN media : media[i] \notin {";", "=", " "}
        /\ route = IF media = <<"application", "/", "json">> THEN "json"
                   ELSE IF media = <<"multipart", "/", "form-data">> THEN "multipart"
                   ELSE "form"
        /\ pc = "json_decode" => route = "json"
        /\ pc \in {"mp_read", "mp_parse", "mp_decode"} => route = "multipart"
        /\ pc \in {"form_parse", "form_decode"} => route = "form"

\* a multipart type other than form-data, with a parameter, is on the form path
C6_Witness ==
    /\ header = <<"multipart", "/", "mixed", ";", " ", "boundary", "=", "x">>
    /\ media = <<"multipart", "/", "mixed">>
    /\ pc = "form_decode"

\* C7: when the header does not parse, Validate returns the error at once:
\* no path is entered, the body is not read, the target is untouched and
\* no Validate() is invoked.
C7_MalformedRejected ==
    pc # "idle" /\ ~ParseMediaType(header).ok =>
        /\ pc = "done"
        /\ ret = MimeErr
        /\ route = "none"
        /\ ~bodyRead
        /\ decoded = "untouched"
        /\ log = <<>>
        /\ stack = <<>>

\* a header with a parameter that has no value has been answered
C7_Witness ==
    /\ header = <<"application", "/", "json", ";", " ", "charset">>
    /\ pc = "done"
    /\ ret = MimeErr

\* C8: on every path Validate() is invoked only once the target is fully
\* decoded, and when parsing or decoding fails that error is returned and
\* no Validate() is invoked.
C8_DecodeThenValidate ==
    /\ (log # <<>> \/ stack # <<>> \/ pc = "validating") => decoded = "full"
    /\ decoded = "partial" =>
          pc = "done" /\ ret = DecodeErr /\ log = <<>> /\ stack = <<>>
    /\ ret = ParseErr =>
          pc = "done" /\ decoded = "untouched" /\ log = <<>> /\ stack = <<>>
    /\ pc = "done" /\ decoded # "full" => ret \in {MimeErr, ParseErr, DecodeErr}

\* the multipart path has returned the error of decoder.Decode
C8_Witness ==
    /\ route = "multipart"
    /\ pc = "done"
    /\ decoded = "partial"
    /\ ret = DecodeErr

C10_ReadUnderLock ==
    build = "setter" /\ route = "multipart" /\ pc # "mp_read" => readLocked /\ ~readRaced

\* C11: on the multipart path the request body is closed by the time
\* Validate returns, whatever the outcome.
C11_MultipartBodyClosed ==
    route = "multipart" /\ pc = "done" => bodyClosed

\* C12: on the JSON path the request body is closed exactly when the call
\* returns: open while it runs, closed once it has returned, be it with
\* the decode error, a validation error or nil.
C12_JSONBodyClosed ==
    route = "json" => (bodyClosed <=> pc = "done")

\* the JSON path has returned a validation error and the body is closed
C12_Witness ==
    /\ route = "json"
    /\ pc = "done"
    /\ ret.kind = "validation"
    /\ bodyClosed

\* the fields above p, from the target's own field down to p's parent
Above(p) == { SubSeq(p, 1, k) : k \in 1..(Len(p) - 1) }

\* C14 as stated: Validate() is invoked neither on a field that cannot be
\* interfaced nor on anything below one, and none of them yields the error.
C14_InaccessibleSkipped ==
    /\ \A i \in DOMAIN log : \A q \in Above(log[i]) \cup {log[i]} :
          q # <<>> => At(form, q).exported
    /\ ret.kind = "validation" =>
          \A q \in Above(ret.node) \cup {ret.node} : q # <<>> => At(form, q).exported

\* C14 amended: Validate() is never invoked on a field that cannot be
\* interfaced, nor below a named one, and none of them yields the error;
\* the fields of an embedded one are still gone through.
C14_InaccessibleNotValidated ==
    /\ \A i \in DOMAIN log :
          /\ log[i] # <<>> => At(form, log[i]).exported
          /\ \A q \in Above(log[i]) : At(form, q).exported \/ At(form, q).anon
    /\ ret.kind = "validation" =>
          /\ ret.node # <<>> => At(form, ret.node).exported
          /\ \A q \in Above(ret.node) : At(form, q).exported \/ At(form, q).anon

\* the first field cannot be interfaced and is a Form that would reject,
\* the other values accept, and the call has returned nil
C14_Witness ==
    /\ Validated
    /\ ~At(form, <<1>>).exported
    /\ NonNil(<<1>>)
    /\ At(form, <<1>>).isForm
    /\ ~Accepts(<<1>>)
    /\ ret = NoErr

\* C15: in one call Validate() is invoked at most once on each node.
C15_AtMostOnce ==
    \A i \in DOMAIN log : \A j \in DOMAIN log : log[i] = log[j] => i = j

\* C16: Validate() is invoked only on nodes every field above which is
\* embedded or a Form; a Validatable value inside a named field that is
\* not a Form is never validated and cannot make the call fail.
C16_NamedNotDescended ==
    /\ \A i \in DOMAIN log : \A q \in Above(log[i]) :
          At(form, q).anon \/ At(form, q).isForm
    /\ ret.kind = "validation" =>
          \A q \in Above(ret.node) : At(form, q).anon \/ At(form, q).isForm
    /\ Validated
       /\ (\A p \in PathsOf(form) :
              Validatable(p) /\ (\A q \in Above(p) : At(form, q).anon \/ At(form, q).isForm)
                  => Accepts(p))
          => ret = NoErr

\* the first field is a named, interfaceable struct that is not a Form and
\* holds a Form that would reject; the call has returned nil
C16_Witness ==
    /\ Validated
    /\ ~At(form, <<1>>).anon
    /\ At(form, <<1>>).exported
    /\ At(form, <<1>>).kind = "struct"
    /\ ~At(form, <<1>>).isForm
    /\ At(form, <<1>>).fields # <<>>
    /\ At(form, <<1, 1>>).exported
    /\ At(form, <<1, 1>>).isForm
    /\ NonNil(<<1, 1>>)
    /\ ~Accepts(<<1, 1>>)
    /\ ret = NoErr

\* the package variable holds what SetMaxUploadSize calls gave it: the value
\* of the call that completed last, or of the one that has stored and not
\* yet returned
ProcessWideKept ==
    \/ maxUploadSize = completed
    \/ \E s \in Setters : setPc[s] = "stored" /\ maxUploadSize = setArg[s]

\* the ceiling the claim names: the target's own, else the process-wide one
ClaimedCeiling == IF override # <<>> THEN override[1] ELSE readCompleted

C17_ErrorHandlerInvoked ==
    srv.pc \in {"done", "panic"} =>
        IF srv.returned # Nil
        THEN /\ errorHandler[srv.mux] # Nil
             /\ srv.invoked = 1
             /\ srv.seen = srv.returned
        ELSE srv.invoked = 0

====
